---- MODULE Spec2Model ----
(***************************************************************************)
(* A model of parsecs (src/src/parsecs.ts): the entity/component store,    *)
(* the eager query, the cacheQuery wrapper and the system scheduler with   *)
(* its run loop.                                                           *)
(*                                                                         *)
(* A JavaScript Map keeps its entries in insertion order: set() on a key   *)
(* that is present replaces the value in place, set() on an absent key     *)
(* appends, delete() removes the entry.  An inner map (entity ->           *)
(* component) is therefore a sequence of entries [entity, comp].  The      *)
(* outer map (type -> inner map) is a function whose DOMAIN is the set of  *)
(* keys: the order of the outer keys is read only by removeEntity, whose   *)
(* result does not depend on it.                                           *)
(*                                                                         *)
(* A keys() iterator of a Map is live: it visits the entries appended      *)
(* after its creation and passes over those deleted ahead of it.  It is    *)
(* the number pos of entries behind it in the sequence.                    *)
(*                                                                         *)
(* Specifications: Spec (the store under its operations), SpecOps (the     *)
(* same with clear, op recording the last operation), SpecLazy (queryIter  *)
(* consumed with the store at rest), SpecLive (queryIter whose consumer    *)
(* operates on the store between the advances), SpecCache (a cacheQuery    *)
(* wrapper beside a changing store), SpecApps (one wrapper used with two   *)
(* apps), SpecSched (system registry, step and run loop).                  *)
(***************************************************************************)
EXTENDS Integers, Sequences, FiniteSets, TLC

\* ---------------------------------------------------------------- bounds

\* addEntity is disabled once nextId reaches MaxId; entity ids are 0..MaxId-1.
MaxId == 2
\* Longest component list handed to addEntity.
MaxInitLen == 1
\* Longest type list handed to query / cacheQuery.
MaxQueryLen == 2
\* addSystem is disabled once MaxSystems per-step systems are registered,
\* addStartupSystem once MaxStartup startup systems are.
MaxSystems == 3
MaxStartup == 2
\* run() is disabled while MaxPending loop callbacks wait for the host's tick.
MaxPending == 2
\* A generator that has yielded MaxYields tuples is not advanced any more.
MaxYields == 3
\* The consumer of one generator makes at most MaxEdits store operations
\* between the generator's advances, all counted together.
MaxEdits == 2

\* The component kinds (C['type']).
Types == {"body", "movement"}
Entities == 0 .. (MaxId - 1)

\* createComponent(name, props): a record with its discriminant and payload.
createComponent(name, props) == [type |-> name, val |-> props]
\* The components handed to the store: two body components that differ in
\* payload, and one movement component.
Comps == {createComponent("body", 1), createComponent("body", 2),
          createComponent("movement", 1)}

\* JavaScript's undefined, as returned by Map.get on an absent key.
Undefined == [type |-> "undefined", val |-> 0]

\* Sequences over S of length lo..hi.
SeqsOf(S, lo, hi) == UNION {[1 .. n -> S] : n \in lo .. hi}
TypeLists == SeqsOf(Types, 1, MaxQueryLen)
CompLists == SeqsOf(Comps, 0, MaxInitLen)

VARIABLES
  entities,        \* App.entities: Set<Entity>
  components,      \* App.components: Map<type, Map<Entity, Component>>
  nextId,          \* App.nextId
  op,              \* the last operation called, its entity argument, and
                   \* whether that entity held what the operation looked for
  iter,            \* the generator object of one queryIter call
  out,             \* the copies its consumer took of the yielded tuples
  refs,            \* the arrays it yielded, each by its identity
  started,         \* holders of the anchor type when the generator's body began
  edits,           \* store operations its consumer has made between the advances
  cacheTypes,      \* cacheQuery's query parameter (<< >>: no wrapper yet)
  cache,           \* cacheQuery's cache variable
  fresh,           \* no get since the wrapper's creation or last invalidate
  other,           \* App.components of a second app the wrapper is used with
  startupSystems,  \* App.startupSystems
  systems,         \* App.systems
  running,         \* App.running
  pending,         \* loop callbacks handed to requestAnimationFrame, not yet called
  invoked          \* the systems the last operation invoked, in order, each
                   \* with the sequence it was taken from

storeVars == <<entities, components, nextId>>
lazyVars == <<iter, out, refs, started, edits>>
cacheVars == <<cacheTypes, cache, fresh, other>>
schedVars == <<startupSystems, systems, running, pending, invoked>>
vars == <<entities, components, nextId, op, iter, out, refs, started, edits,
          cacheTypes, cache, fresh, other,
          startupSystems, systems, running, pending, invoked>>

\* ------------------------------------------------------- JavaScript Map

MapIndex(m, k) ==
  IF \E i \in 1 .. Len(m) : m[i].entity = k
  THEN CHOOSE i \in 1 .. Len(m) : m[i].entity = k
  ELSE 0

MapHas(m, k) == MapIndex(m, k) # 0

MapGet(m, k) == IF MapHas(m, k) THEN m[MapIndex(m, k)].comp ELSE Undefined

\* A set() that moves a replaced entry to the end.
MapSetMoveToEnd(m, k, v) ==
  Append(SelectSeq(m, LAMBDA en : en.entity # k), [entity |-> k, comp |-> v])

MapSet(m, k, v) ==
  IF MapHas(m, k)
  THEN [m EXCEPT ![MapIndex(m, k)].comp = v]
  ELSE Append(m, [entity |-> k, comp |-> v])

MapDelete(m, k) == SelectSeq(m, LAMBDA en : en.entity # k)

MapKeys(m) == [i \in 1 .. Len(m) |-> m[i].entity]

\* ------------------------------------------------------ component store

\* An addComponent that keeps the component the entity already holds.
addComponentKeepFirst(cs, entity, component) ==
  IF component.type \in DOMAIN cs /\ MapHas(cs[component.type], entity)
  THEN cs
  ELSE [t \in DOMAIN cs \cup {component.type} |->
          IF t = component.type
          THEN Append(IF t \in DOMAIN cs THEN cs[t] ELSE << >>,
                      [entity |-> entity, comp |-> component])
          ELSE cs[t]]

\* App.addComponent, on the outer map cs.
addComponent(cs, entity, component) ==
  LET type == component.type
      withType == IF type \in DOMAIN cs
                  THEN cs
                  ELSE [t \in DOMAIN cs \cup {type} |->
                          IF t = type THEN << >> ELSE cs[t]]
  IN  [withType EXCEPT ![type] = MapSet(withType[type], entity, component)]

\* A removeComponent that drops the type's whole sub-map.
removeComponentDropType(cs, entity, componentType) ==
  [t \in DOMAIN cs \ {componentType} |-> cs[t]]

\* App.removeComponent.
removeComponent(cs, entity, componentType) ==
  IF componentType \in DOMAIN cs
  THEN [cs EXCEPT ![componentType] = MapDelete(cs[componentType], entity)]
  ELSE cs

\* A removeEntity that deletes from one sub-map only.
removeEntityFirstKey(cs, entity) ==
  IF DOMAIN cs = {}
  THEN cs
  ELSE removeComponent(cs, entity, CHOOSE t \in DOMAIN cs : TRUE)

\* The loop of App.removeEntity over this.components.keys().
removeEntityComponents(cs, entity) ==
  [t \in DOMAIN cs |-> MapDelete(cs[t], entity)]

\* App.getComponent.
getComponent(cs, id, type) ==
  IF type \in DOMAIN cs THEN MapGet(cs[type], id) ELSE Undefined

\* A hasComponent that looks for the type's sub-map only.
hasComponentTypeOnly(cs, id, type) == type \in DOMAIN cs

\* App.hasComponent.
hasComponent(cs, id, type) ==
  IF type \in DOMAIN cs THEN MapHas(cs[type], id) ELSE FALSE

\* The for loop of App.addEntity over its component list.
RECURSIVE addComponents(_, _, _)
addComponents(cs, id, comps) ==
  IF comps = << >>
  THEN cs
  ELSE addComponents(addComponent(cs, id, Head(comps)), id, Tail(comps))

\* ---------------------------------------------------------------- query

\* new Array(types.length + 1): the component slots and the entity slot.
NewTuple(types) == [c |-> [i \in 1 .. Len(types) |-> Undefined], e |-> -1]

\* App.storeQueryTuple.
storeQueryTuple(cs, types, entity, tuple) ==
  [tuple EXCEPT !.c = [i \in 1 .. Len(types) |-> getComponent(cs, entity, types[i])],
                !.e = entity]

\* A checkRemainingComponents that starts one type too late.
checkRemainingFromThird(cs, entity, types) ==
  \A i \in 3 .. Len(types) : hasComponent(cs, entity, types[i])

\* App.checkRemainingComponents: starts at the second type.
checkRemainingComponents(cs, entity, types) ==
  \A i \in 2 .. Len(types) : hasComponent(cs, entity, types[i])

RECURSIVE queryLoop(_, _, _, _)
queryLoop(cs, types, keys, tuples) ==
  IF keys = << >>
  THEN tuples
  ELSE LET entity == Head(keys)
       IN  queryLoop(cs, types, Tail(keys),
             IF checkRemainingComponents(cs, entity, types)
             THEN Append(tuples, storeQueryTuple(cs, types, entity, NewTuple(types)))
             ELSE tuples)

\* App.query.
query(cs, types) ==
  IF types[1] \in DOMAIN cs
  THEN queryLoop(cs, types, MapKeys(cs[types[1]]), << >>)
  ELSE << >>

\* this.components.get(t)?.keys(): the keys of a type's sub-map in the map's
\* order, none when the type has no sub-map.
AnchorKeys(cs, t) == IF t \in DOMAIN cs THEN MapKeys(cs[t]) ELSE << >>

\* ---------------------------------------------------------------- state

NoOp == [name |-> "init", e |-> -1, hit |-> FALSE]
Did(name, e, hit) == [name |-> name, e |-> e, hit |-> hit]

\* Whether entity e holds a component of any type.
HoldsAny(cs, e) == \E t \in DOMAIN cs : MapHas(cs[t], e)

\* App.getEntities: the iteration of the registry.
getEntities == entities

\* A generator that does not exist, and cacheQuery's null.  A generator has
\* its parameter types, the array tuple (buf: which array it is, counted
\* from 1 among the allocs arrays the generator has allocated; tuple: what it
\* holds) and the iterator entities: pos entries of the anchor type's
\* sub-map are behind it, and that sub-map is the one in this.components
\* unless detached, when it is a Map with the entries keys that
\* this.components holds no more.
NoIter == [state |-> "none", types |-> << >>, pos |-> 0, tuple |-> NewTuple(<< >>),
           buf |-> 0, allocs |-> 0, detached |-> FALSE, keys |-> << >>]
Null == [isNull |-> TRUE, v |-> << >>]

Init ==
  /\ entities = {}
  /\ components = << >>
  /\ nextId = 0
  /\ op = NoOp
  /\ iter = NoIter
  /\ out = << >>
  /\ refs = << >>
  /\ started = 0
  /\ edits = 0
  /\ cacheTypes = << >>
  /\ cache = Null
  /\ fresh = TRUE
  /\ other = << >>
  /\ startupSystems = << >>
  /\ systems = << >>
  /\ running = FALSE
  /\ pending = 0
  /\ invoked = << >>

\* App.addEntity(components).  The returned actions.add is AddComponent on
\* the returned id.
AddEntity(comps) ==
  /\ nextId < MaxId
  /\ nextId' = nextId + 1
  /\ entities' = entities \cup {nextId}
  /\ components' = addComponents(components, nextId, comps)

\* App.addComponent: the entity is not checked against the registry.
AddComponent(e, c) ==
  /\ components' = addComponent(components, e, c)
  /\ UNCHANGED <<entities, nextId>>

\* App.removeComponent.
RemoveComponent(e, t) ==
  /\ components' = removeComponent(components, e, t)
  /\ UNCHANGED <<entities, nextId>>

\* App.removeEntity.
RemoveEntity(e) ==
  /\ components' = removeEntityComponents(components, e)
  /\ entities' = entities \ {e}
  /\ UNCHANGED nextId

\* A clearEntities that starts the ids again from 0.
ClearEntitiesResetIds ==
  /\ entities' = {}
  /\ components' = << >>
  /\ nextId' = 0

\* App.clearEntities.
ClearEntities ==
  /\ entities' = {}
  /\ components' = << >>
  /\ UNCHANGED nextId

\* App.clear.
Clear ==
  /\ ClearEntities
  /\ systems' = << >>
  /\ startupSystems' = << >>
  /\ invoked' = << >>
  /\ op' = Did("clear", -1, running)
  /\ UNCHANGED <<running, pending, lazyVars, cacheVars>>

\* The store under any sequence of its operations.
Next ==
  /\ \/ \E comps \in CompLists : AddEntity(comps)
     \/ \E e \in Entities, c \in Comps : AddComponent(e, c)
     \/ \E e \in Entities, t \in Types : RemoveComponent(e, t)
     \/ \E e \in Entities : RemoveEntity(e)
     \/ ClearEntities
  /\ UNCHANGED <<op, lazyVars, cacheVars, schedVars>>

Spec == Init /\ [][Next]_vars

\* The same store, with op recording the last operation.
NextOps ==
  /\ \/ \E comps \in CompLists :
          AddEntity(comps)
          /\ op' = Did("addEntity", nextId, HoldsAny(components, nextId))
     \/ \E e \in Entities, c \in Comps :
          AddComponent(e, c)
          /\ op' = Did("addComponent", e, hasComponent(components, e, c.type))
     \/ \E e \in Entities, t \in Types :
          RemoveComponent(e, t)
          /\ op' = Did("removeComponent", e, hasComponent(components, e, t))
     \/ \E e \in Entities :
          RemoveEntity(e) /\ op' = Did("removeEntity", e, HoldsAny(components, e))
     \/ ClearEntities /\ op' = Did("clearEntities", -1, FALSE)
     \/ Clear
  /\ UNCHANGED <<lazyVars, cacheVars, schedVars>>

SpecOps == Init /\ [][NextOps]_vars

\* ------------------------------------------------------------ queryIter

\* A loop that yields every key of the anchor type.
nextKeyUnchecked(cs, types, keys, pos) == IF pos < Len(keys) THEN pos + 1 ELSE 0

\* queryIter's for loop, resumed after the key at pos: the position of the
\* next key that passes checkRemainingComponents, 0 when the keys run out.
RECURSIVE nextMatch(_, _, _, _)
nextMatch(cs, types, keys, pos) ==
  IF pos >= Len(keys)
  THEN 0
  ELSE IF checkRemainingComponents(cs, keys[pos + 1], types)
       THEN pos + 1
       ELSE nextMatch(cs, types, keys, pos + 1)

\* A generator that allocates an array for every tuple it yields.
bufferPerYield(it) == it.allocs + 1

\* const tuple = new Array(types.length + 1): the array the generator fills,
\* allocated once, when its body begins.
bufferOf(it) == IF it.state = "created" THEN it.allocs + 1 ELSE it.buf

\* The keys of the Map that the generator's entities iterator walks.
iterKeys(it, cs) == IF it.detached THEN it.keys ELSE AnchorKeys(cs, it.types[1])

\* App.queryIter(types): the call builds the generator and runs none of its
\* body.
QueryIter(types) ==
  /\ iter.state = "none"
  /\ iter' = [NoIter EXCEPT !.state = "created", !.types = types]
  /\ out' = << >>
  /\ refs' = << >>
  /\ started' = 0
  /\ edits' = 0
  /\ UNCHANGED <<storeVars, op, cacheVars, schedVars>>

\* One next() of the generator: on the first one the buffer is allocated and
\* the anchor's keys() taken, and the generator ends at once when the anchor
\* type has no sub-map; the loop runs to its next yield or to its end.  The
\* consumer keeps the yielded array and a copy of what it holds.
IterNext ==
  /\ iter.state \in {"created", "yielded"}
  /\ Len(out) < MaxYields
  /\ LET types == iter.types
         first == iter.state = "created"
         tuple == IF first THEN NewTuple(types) ELSE iter.tuple
         buf == bufferOf(iter)
         it == [iter EXCEPT !.tuple = tuple, !.buf = buf,
                            !.allocs = IF buf > @ THEN buf ELSE @]
         keys == iterKeys(iter, components)
         at == nextMatch(components, types, keys, iter.pos)
     IN  /\ started' = IF first THEN Len(keys) ELSE started
         /\ IF at = 0
            THEN /\ iter' = [it EXCEPT !.state = "done"]
                 /\ out' = out
                 /\ refs' = refs
            ELSE LET filled == storeQueryTuple(components, types, keys[at], tuple)
                 IN  /\ iter' = [it EXCEPT !.state = "yielded", !.pos = at,
                                           !.tuple = filled]
                     /\ out' = Append(out, filled)
                     /\ refs' = Append(refs, buf)
  /\ UNCHANGED <<storeVars, op, edits, cacheVars, schedVars>>

\* The consumer's loop has ended and drops the generator.
IterDrop ==
  /\ iter.state = "done"
  /\ iter' = NoIter
  /\ out' = << >>
  /\ refs' = << >>
  /\ started' = 0
  /\ edits' = 0
  /\ UNCHANGED <<storeVars, op, cacheVars, schedVars>>

\* A lazy query consumed with no store operation between its creation and
\* its end.
NextLazy ==
  \/ /\ iter.state = "none"
     /\ \/ \E comps \in CompLists : AddEntity(comps)
        \/ \E e \in Entities, c \in Comps : AddComponent(e, c)
        \/ \E e \in Entities, t \in Types : RemoveComponent(e, t)
     /\ UNCHANGED <<op, lazyVars, cacheVars, schedVars>>
  \/ \E types \in TypeLists : QueryIter(types)
  \/ IterNext
  \/ IterDrop

SpecLazy == Init /\ [][NextLazy]_vars

\* The generator after Map.delete(entity) on the sub-map of type t in cs: an
\* entry deleted behind the iterator leaves one entry less behind it.
afterDelete(it, cs, entity, t) ==
  IF /\ it.state = "yielded"
     /\ ~it.detached
     /\ t = it.types[1]
     /\ t \in DOMAIN cs
     /\ MapHas(cs[t], entity)
     /\ MapIndex(cs[t], entity) <= it.pos
  THEN [it EXCEPT !.pos = @ - 1]
  ELSE it

\* The generator after this.components.clear(): the sub-map its iterator
\* walks keeps its entries and is in this.components no more.
afterClear(it, cs) ==
  IF it.state = "yielded" /\ ~it.detached
  THEN [it EXCEPT !.detached = TRUE, !.keys = AnchorKeys(cs, it.types[1])]
  ELSE it

\* The consumer of a generator calls addComponent, removeComponent,
\* removeEntity or clearEntities between two advances.
Editing ==
  /\ iter.state = "yielded"
  /\ edits < MaxEdits
  /\ edits' = edits + 1
  /\ UNCHANGED <<op, out, refs, started, cacheVars, schedVars>>

LiveAddComponent(e, c) ==
  /\ Editing
  /\ AddComponent(e, c)
  /\ UNCHANGED iter

LiveRemoveComponent(e, t) ==
  /\ Editing
  /\ RemoveComponent(e, t)
  /\ iter' = afterDelete(iter, components, e, t)

LiveRemoveEntity(e) ==
  /\ Editing
  /\ RemoveEntity(e)
  /\ iter' = afterDelete(iter, components, e, iter.types[1])

LiveClearEntities ==
  /\ Editing
  /\ ClearEntities
  /\ iter' = afterClear(iter, components)

\* A lazy query whose consumer operates on the store between the advances.
NextLive ==
  \/ /\ iter.state = "none"
     /\ \E comps \in CompLists : AddEntity(comps)
     /\ UNCHANGED <<op, lazyVars, cacheVars, schedVars>>
  \/ \E types \in TypeLists : QueryIter(types)
  \/ IterNext
  \/ IterDrop
  \/ \E e \in Entities, c \in Comps : LiveAddComponent(e, c)
  \/ \E e \in Entities, t \in Types : LiveRemoveComponent(e, t)
  \/ \E e \in Entities : LiveRemoveEntity(e)
  \/ LiveClearEntities

SpecLive == Init /\ [][NextLive]_vars

\* ----------------------------------------------------------- cacheQuery

\* A get that queries on every call.
cacheGetAlwaysQuery(c, cs, types) == [isNull |-> FALSE, v |-> query(cs, types)]

\* The cache variable after get(app); get returns its value.
cacheGet(c, cs, types) ==
  IF c = Null THEN [isNull |-> FALSE, v |-> query(cs, types)] ELSE c

\* cacheQuery(query): a wrapper with an empty cache.
CacheQuery(types) ==
  /\ cacheTypes = << >>
  /\ cacheTypes' = types
  /\ cache' = Null
  /\ fresh' = TRUE
  /\ op' = Did("cacheQuery", -1, FALSE)
  /\ UNCHANGED <<other, storeVars, lazyVars, schedVars>>

\* get(app).  op.hit: the value returned is not the store's current query
\* result.
Get ==
  /\ cacheTypes # << >>
  /\ cache' = cacheGet(cache, components, cacheTypes)
  /\ fresh' = FALSE
  /\ op' = Did("get", -1, cache'.v # query(components, cacheTypes))
  /\ UNCHANGED <<cacheTypes, other, storeVars, lazyVars, schedVars>>

\* invalidate().
Invalidate ==
  /\ cacheTypes # << >>
  /\ cache' = Null
  /\ fresh' = TRUE
  /\ op' = Did("invalidate", -1, FALSE)
  /\ UNCHANGED <<cacheTypes, other, storeVars, lazyVars, schedVars>>

\* One wrapper beside a store to which entities are added with their
\* components and from which components and entities are removed.
NextCache ==
  \/ /\ \/ \E comps \in CompLists : AddEntity(comps)
        \/ \E e \in Entities, t \in Types : RemoveComponent(e, t)
        \/ \E e \in Entities : RemoveEntity(e)
     /\ op' = Did("mutate", -1, FALSE)
     /\ UNCHANGED <<lazyVars, cacheVars, schedVars>>
  \/ \E types \in TypeLists : CacheQuery(types)
  \/ Get
  \/ Invalidate

SpecCache == Init /\ [][NextCache]_vars

\* addComponent on the second app.
OtherAddComponent(e, c) ==
  /\ other' = addComponent(other, e, c)
  /\ op' = Did("mutate", -1, FALSE)
  /\ UNCHANGED <<cacheTypes, cache, fresh, storeVars, lazyVars, schedVars>>

\* get(app) with the second app.  op.hit: the value returned is not the
\* second app's current query result.
GetOther ==
  /\ cacheTypes # << >>
  /\ cache' = cacheGet(cache, other, cacheTypes)
  /\ fresh' = FALSE
  /\ op' = Did("getOther", -1, cache'.v # query(other, cacheTypes))
  /\ UNCHANGED <<cacheTypes, other, storeVars, lazyVars, schedVars>>

\* One wrapper used with two apps, entities being added to the first and
\* components to the second.
NextApps ==
  \/ /\ \E comps \in CompLists : AddEntity(comps)
     /\ op' = Did("mutate", -1, FALSE)
     /\ UNCHANGED <<lazyVars, cacheVars, schedVars>>
  \/ \E e \in Entities, c \in Comps : OtherAddComponent(e, c)
  \/ \E types \in TypeLists : CacheQuery(types)
  \/ Get
  \/ GetOther
  \/ Invalidate

SpecApps == Init /\ [][NextApps]_vars

\* ------------------------------------------------------------ scheduler

\* The systems registered: "a" only reports its invocation; "s" also calls
\* app.stop(); "r" also calls app.removeSystem(r), taking itself out of the
\* per-step systems.
Systems == {"a", "s", "r"}
StartupChoices == {"a", "s"}

\* The scheduler's fields as one value, for the operators that model the
\* methods calling one another.
Sched == [startupSystems |-> startupSystems, systems |-> systems,
          running |-> running, pending |-> pending, invoked |-> << >>]

SetSched(sch) ==
  /\ startupSystems' = sch.startupSystems
  /\ systems' = sch.systems
  /\ running' = sch.running
  /\ pending' = sch.pending
  /\ invoked' = sch.invoked

\* App.stop.
stop(sch) == [sch EXCEPT !.running = FALSE]

\* The loop of App.removeSystem: the list without the first occurrence of
\* system.
removeFirst(list, system) ==
  IF \E i \in 1 .. Len(list) : list[i] = system
  THEN LET i == CHOOSE k \in 1 .. Len(list) :
                  /\ list[k] = system
                  /\ \A j \in 1 .. (k - 1) : list[j] # system
       IN  SubSeq(list, 1, i - 1) \o SubSeq(list, i + 1, Len(list))
  ELSE list

\* App.removeSystem.
removeSystem(sch, system, startup) ==
  IF startup
  THEN [sch EXCEPT !.startupSystems = removeFirst(@, system)]
  ELSE [sch EXCEPT !.systems = removeFirst(@, system)]

\* The call system(this), from the startup or the per-step sequence.
callSystem(sch, system, phase) ==
  LET called == [sch EXCEPT !.invoked = Append(@, [sys |-> system, phase |-> phase])]
  IN  CASE system = "s" -> stop(called)
        [] system = "r" -> removeSystem(called, "r", FALSE)
        [] OTHER -> called

\* The for loop of App.step from index i (counted from 1): the length and
\* the element are read from this.systems at every round.
RECURSIVE stepFrom(_, _)
stepFrom(sch, i) ==
  IF i > Len(sch.systems)
  THEN sch
  ELSE stepFrom(callSystem(sch, sch.systems[i], "step"), i + 1)

\* App.step.
step(sch) == stepFrom(sch, 1)

\* this.startupSystems.forEach from index k: forEach reads the length once,
\* before the first call.
RECURSIVE forEachStartup(_, _, _)
forEachStartup(sch, k, len) ==
  IF k > len
  THEN sch
  ELSE forEachStartup(
         IF k <= Len(sch.startupSystems)
         THEN callSystem(sch, sch.startupSystems[k], "startup")
         ELSE sch,
         k + 1, len)

\* A loop that calls the startup systems before every step.
loopWithStartup(sch) ==
  IF sch.running
  THEN [step(forEachStartup(sch, 1, Len(sch.startupSystems))) EXCEPT !.pending = @ + 1]
  ELSE sch

\* App.loop.
loop(sch) ==
  IF sch.running
  THEN [step(sch) EXCEPT !.pending = @ + 1]
  ELSE sch

\* A run that returns at once when the app is running.
runRejectedWhenRunning(sch) ==
  IF sch.running
  THEN sch
  ELSE loop(forEachStartup([sch EXCEPT !.running = TRUE], 1, Len(sch.startupSystems)))

\* App.run.
run(sch) ==
  loop(forEachStartup([sch EXCEPT !.running = TRUE], 1, Len(sch.startupSystems)))

\* App.addSystem.
AddSystem(system) ==
  /\ Len(systems) < MaxSystems
  /\ systems' = Append(systems, system)
  /\ invoked' = << >>
  /\ op' = Did("addSystem", -1, running)
  /\ UNCHANGED <<startupSystems, running, pending, storeVars, lazyVars, cacheVars>>

\* App.addStartupSystem.
AddStartupSystem(system) ==
  /\ Len(startupSystems) < MaxStartup
  /\ startupSystems' = Append(startupSystems, system)
  /\ invoked' = << >>
  /\ op' = Did("addStartupSystem", -1, running)
  /\ UNCHANGED <<systems, running, pending, storeVars, lazyVars, cacheVars>>

\* App.removeSystem(system, startup), called from outside a step.  op.hit:
\* the system was in the chosen sequence.
RemoveSystem(system, startup) ==
  /\ SetSched(removeSystem(Sched, system, startup))
  /\ op' = Did("removeSystem", -1,
               \E i \in 1 .. Len(IF startup THEN startupSystems ELSE systems) :
                 (IF startup THEN startupSystems ELSE systems)[i] = system)
  /\ UNCHANGED <<storeVars, lazyVars, cacheVars>>

\* App.clearSystems.
ClearSystems ==
  /\ systems' = << >>
  /\ startupSystems' = << >>
  /\ invoked' = << >>
  /\ op' = Did("clearSystems", -1, running)
  /\ UNCHANGED <<running, pending, storeVars, lazyVars, cacheVars>>

\* App.step, called from outside the loop.  op.hit: the app was Running.
Step ==
  /\ SetSched(step(Sched))
  /\ op' = Did("step", -1, running)
  /\ UNCHANGED <<storeVars, lazyVars, cacheVars>>

\* App.run.  op.hit: the app was Running already.
Run ==
  /\ pending < MaxPending
  /\ SetSched(run(Sched))
  /\ op' = Did("run", -1, running)
  /\ UNCHANGED <<storeVars, lazyVars, cacheVars>>

\* App.stop, called from outside a step.
Stop ==
  /\ SetSched(stop(Sched))
  /\ op' = Did("stop", -1, running)
  /\ UNCHANGED <<storeVars, lazyVars, cacheVars>>

\* The host calls one callback handed to requestAnimationFrame: App.loop.
\* op.hit: the app was Running.
Tick ==
  /\ pending > 0
  /\ SetSched(loop([Sched EXCEPT !.pending = @ - 1]))
  /\ op' = Did("tick", -1, running)
  /\ UNCHANGED <<storeVars, lazyVars, cacheVars>>

NextSched ==
  \/ \E system \in Systems : AddSystem(system)
  \/ \E system \in StartupChoices : AddStartupSystem(system)
  \/ \E system \in Systems, startup \in BOOLEAN : RemoveSystem(system, startup)
  \/ ClearSystems
  \/ Clear
  \/ Step
  \/ Run
  \/ Stop
  \/ Tick

SpecSched == Init /\ [][NextSched]_vars

\* ------------------------------------------------------------ properties

\* The entities of a query result, in the order of the result.
Ids(tuples) == [i \in 1 .. Len(tuples) |-> tuples[i].e]
Range(s) == {s[i] : i \in 1 .. Len(s)}

\* The entities that hold a component of every type of the list.
Matching(cs, types) ==
  {e \in Entities : \A i \in 1 .. Len(types) : hasComponent(cs, e, types[i])}

\* C1: in every reachable store, for every entity e and type tag T,
\* hasComponent(e,T) is true exactly when getComponent(e,T) returns a present
\* component, and that component's type field is T.
C1_HasIffGet ==
  \A e \in Entities, t \in Types :
    /\ hasComponent(components, e, t) <=> getComponent(components, e, t) # Undefined
    /\ hasComponent(components, e, t) => getComponent(components, e, t).type = t

\* C1's case: one entity holds a type, another entity lacks it although the
\* type has a sub-map, and some type has no sub-map at all.
C1_Witness ==
  /\ \E e1, e2 \in Entities, t \in Types :
       /\ hasComponent(components, e1, t)
       /\ ~hasComponent(components, e2, t)
  /\ \E t \in Types : t \notin DOMAIN components

\* C2: for every reachable store and every non-empty type list, query returns
\* one tuple per entity that holds every listed type and none for any other
\* entity, and the tuple of e is getComponent(e,T0) .. getComponent(e,Tn)
\* followed by e.
C2_QueryExact ==
  \A types \in TypeLists :
    LET q == query(components, types)
        m == Matching(components, types)
    IN  /\ Range(Ids(q)) = m
        /\ Len(q) = Cardinality(m)
        /\ \A i \in 1 .. Len(q) :
             /\ Len(q[i].c) = Len(types)
             /\ \A j \in 1 .. Len(types) :
                  /\ q[i].c[j] = getComponent(components, q[i].e, types[j])
                  /\ q[i].c[j] # Undefined

\* C2's case: an entity with body and movement beside one with body only,
\* whose body components differ.
C2_Witness ==
  \E e1, e2 \in Entities :
    /\ e1 # e2
    /\ Matching(components, <<"body", "movement">>) = {e1}
    /\ hasComponent(components, e2, "body")
    /\ getComponent(components, e1, "body") # getComponent(components, e2, "body")

\* The order in which query enumerates the holders of one type.
OrderIn(cs, t) == Ids(query(cs, <<t>>))
Order(t) == OrderIn(components, t)

IsAscending(s) == \A i, j \in 1 .. Len(s) : i < j => s[i] < s[j]

\* new is old with one new key appended last, or old with keys deleted.
InsertionStep(old, new) ==
  \/ new = old
  \/ /\ Len(new) = Len(old) + 1
     /\ SubSeq(new, 1, Len(old)) = old
     /\ new[Len(new)] \notin Range(old)
  \/ /\ Len(new) < Len(old)
     /\ new = SelectSeq(old, LAMBDA e : e \in Range(new))

\* C3, as claimed: query returns the matching entities in ascending entity id
\* in every store reachable by addEntity, addComponent, removeComponent and
\* removeEntity.
C3_AscendingIds ==
  \A types \in TypeLists : IsAscending(Ids(query(components, types)))

\* C3, amended: query returns the matching entities in the insertion order of
\* the anchor type's sub-map restricted to the matching entities, and every
\* operation either appends one new holder of a type last or deletes holders,
\* keeping the relative order of the others (replacing a component keeps its
\* place).
C3_InsertionOrder ==
  /\ [](\A types \in TypeLists :
          LET m == Matching(components, types)
          IN  Ids(query(components, types))
                = SelectSeq(AnchorKeys(components, types[1]), LAMBDA e : e \in m))
  /\ [][ components' # components =>
           \A t \in Types :
             InsertionStep(AnchorKeys(components, t), AnchorKeys(components', t)) ]_vars

\* C3's case: two holders of a type enumerated in descending entity id, both
\* created by addEntity.
C3_Witness ==
  \E t \in Types :
    /\ Len(Order(t)) = 2
    /\ Order(t)[1] > Order(t)[2]
    /\ Range(Order(t)) \subseteq entities

\* C5: immediately after removeEntity(e), hasComponent(e,T) is false for every
\* type tag T and getEntities() no longer enumerates e; the components and the
\* registry membership of every other entity are unchanged.
C5_RemoveEntity ==
  [][ op'.name = "removeEntity" =>
        LET e == op'.e
        IN  /\ \A t \in Types : ~hasComponent(components', e, t)
            /\ e \notin entities'
            /\ \A e2 \in Entities \ {e} :
                 /\ e2 \in entities' <=> e2 \in getEntities
                 /\ \A t \in Types :
                      getComponent(components', e2, t) = getComponent(components, e2, t)
            /\ \A t \in Types :
                 OrderIn(components', t)
                   = SelectSeq(OrderIn(components, t), LAMBDA x : x # e) ]_vars

\* C5's case: removeEntity has just removed a registered entity that held a
\* component of every type, while another registered entity holds components.
C5_Witness ==
  /\ op.name = "removeEntity"
  /\ op.hit
  /\ op.e < nextId
  /\ \E e2 \in entities : e2 # op.e /\ HoldsAny(components, e2)

\* C4: for every store and every type list, the copies taken of the tuples
\* that queryIter yields, one per advance and with no store operation in
\* between, are a prefix of query's result while the generator runs and equal
\* to it, element for element, once the generator is exhausted.
C4_LazyEqualsEager ==
  LET q == query(components, iter.types)
  IN  /\ iter.state = "yielded" =>
           /\ Len(out) <= Len(q)
           /\ out = SubSeq(q, 1, Len(out))
           /\ out[Len(out)] = iter.tuple
      /\ iter.state = "done" => out = q

\* C4's case: an exhausted lazy query over two types that yielded two
\* different tuples, the entity created later first.
C4_Witness ==
  /\ iter.state = "done"
  /\ Len(iter.types) = 2
  /\ Len(out) = 2
  /\ out[1].e > out[2].e
  /\ out[1].c # out[2].c

\* C6: a get returns the store's current query result when it is the first
\* get since the wrapper's creation or its last invalidate(), and the value
\* of the get before it otherwise; store operations leave the cached value
\* alone.
C6_CacheStaleness ==
  [][ /\ op'.name = "get" =>
           /\ ~cache'.isNull
           /\ cache'.v = IF fresh THEN query(components, cacheTypes) ELSE cache.v
      /\ op'.name = "mutate" => cache' = cache ]_vars

\* C6's case: a get has just returned a value that is not the store's current
\* query result.
C6_Witness ==
  /\ op.name = "get"
  /\ op.hit
  /\ cache.v # << >>
  /\ query(components, cacheTypes) # << >>

\* The invocations of a sequence of systems, each once and in order.
AsInvoked(list, phase) == [i \in 1 .. Len(list) |-> [sys |-> list[i], phase |-> phase]]
StartupPart(inv) == SelectSeq(inv, LAMBDA x : x.phase = "startup")
StepPart(inv) == SelectSeq(inv, LAMBDA x : x.phase = "step")
StopCalled(inv) == \E i \in 1 .. Len(inv) : inv[i].sys = "s"

\* C7: one call of step() invokes every registered per-step system exactly
\* once, in registration order, whether the app is Stopped or Running, and
\* invokes no startup system.
C7_StepInvokesAll ==
  [][ op'.name = "step" => invoked' = AsInvoked(systems, "step") ]_vars

\* What holds of step() beside C7: when no registered system takes itself out
\* of the sequence during the step, every registered system is invoked once,
\* in order.
StepInvokesAllWithoutRemoval ==
  [][ (op'.name = "step" /\ "r" \notin Range(systems)) =>
        invoked' = AsInvoked(systems, "step") ]_vars

\* C8: a run() invokes each startup system exactly once, in registration
\* order and before any per-step system; no later step, by a loop tick or by
\* a call of step(), invokes a startup system.
C8_StartupOnce ==
  [][ /\ op'.name = "run" =>
           /\ Len(invoked') >= Len(startupSystems)
           /\ SubSeq(invoked', 1, Len(startupSystems))
                = AsInvoked(startupSystems, "startup")
           /\ Len(StartupPart(invoked')) = Len(startupSystems)
      /\ op'.name \in {"step", "tick"} => StartupPart(invoked') = << >> ]_vars

\* C8's case: a tick of the loop has just invoked per-step systems of a
\* running app that has two startup systems.
C8_Witness ==
  /\ op.name = "tick"
  /\ op.hit
  /\ Len(startupSystems) = 2
  /\ Len(invoked) >= 2

\* C9: when a system calls stop() during a step of the run loop, the systems
\* registered after it are still invoked in that step; the next tick finds
\* the app Stopped, invokes no system and schedules no further tick.
C9_StopDuringStep ==
  [][ /\ (op'.name \in {"run", "tick"} /\ StopCalled(StepPart(invoked'))) =>
           LET sp == StepPart(invoked')
               k == CHOOSE i \in 1 .. Len(systems) :
                      systems[i] = "s" /\ \A j \in 1 .. (i - 1) : systems[j] # "s"
               m == CHOOSE i \in 1 .. Len(sp) :
                      sp[i].sys = "s" /\ \A j \in 1 .. (i - 1) : sp[j].sys # "s"
           IN  SubSeq(sp, m + 1, Len(sp))
                 = AsInvoked(SubSeq(systems, k + 1, Len(systems)), "step")
      /\ (op'.name = "tick" /\ ~running) =>
           /\ invoked' = << >>
           /\ pending' = pending - 1
           /\ ~running' ]_vars

\* What holds of stop() beside C9: in a step of the loop whose systems leave
\* the sequence alone, a call of stop() does not keep the later systems from
\* being invoked, and a tick that finds the app Stopped does nothing.
StopDoesNotAbortStep ==
  [][ /\ (op'.name \in {"run", "tick"} /\ "r" \notin Range(systems)
          /\ StepPart(invoked') # << >>) =>
           StepPart(invoked') = AsInvoked(systems, "step")
      /\ (op'.name = "tick" /\ ~running) =>
           /\ invoked' = << >>
           /\ pending' = pending - 1
           /\ ~running' ]_vars

\* C10, as claimed: run() on a running app invokes all startup systems again
\* in registration order, leaves the app Running with the loop going on, and
\* is not rejected.
C10_RunWhileRunning ==
  [][ (op'.name = "run" /\ running) =>
        /\ StartupPart(invoked') = AsInvoked(startupSystems, "startup")
        /\ running'
        /\ pending' > 0 ]_vars

\* C10, amended: run() on a running app is not rejected: it invokes all
\* startup systems again in registration order; unless a startup system
\* called stop(), it goes on to a step of its own and hands one more loop
\* callback to the host; the app is Running afterwards unless a system
\* invoked during the call called stop().
C10_RunWhileRunningUnlessStopped ==
  [][ (op'.name = "run" /\ running) =>
        /\ StartupPart(invoked') = AsInvoked(startupSystems, "startup")
        /\ SubSeq(invoked', 1, Len(startupSystems))
             = AsInvoked(startupSystems, "startup")
        /\ running' = ~StopCalled(invoked')
        /\ IF StopCalled(StartupPart(invoked'))
           THEN StepPart(invoked') = << >> /\ pending' = pending
           ELSE /\ pending' = pending + 1
                /\ systems # << >> => StepPart(invoked') # << >> ]_vars

\* C10's case: run() has just been called on a running app with two startup
\* systems and has left it Running, with two loop callbacks pending.
C10_Witness ==
  /\ op.name = "run"
  /\ op.hit
  /\ running
  /\ pending = 2
  /\ Len(startupSystems) = 2
  /\ Len(invoked) > 2

\* C11: the id an addEntity returns is the counter's value before the call
\* and the call raises the counter by one; no other operation, removeEntity,
\* clearEntities and clear included, changes the counter, and every id in the
\* registry is below it.  The ids returned are therefore strictly increasing
\* and none is returned twice.
C11_IdsIncrease ==
  /\ [](\A e \in entities : e < nextId)
  /\ [][ /\ nextId' >= nextId
         /\ op'.name = "addEntity" =>
              /\ op'.e = nextId
              /\ nextId' = nextId + 1
              /\ entities' = entities \cup {op'.e}
         /\ op'.name # "addEntity" => nextId' = nextId ]_vars

\* C11's case: addEntity has just returned an id above 0 into a registry
\* that a removeEntity, a clearEntities or a clear had emptied.
C11_Witness ==
  /\ op.name = "addEntity"
  /\ op.e > 0
  /\ entities = {op.e}

\* C12: removeComponent(e,T) when e holds no component of type T, also when T
\* has no sub-map, and removeEntity(e) when e is not in the registry and
\* holds no component, are defined and leave the registry, the component
\* store and the id counter as they were.
C12_RemoveAbsent ==
  /\ [](\A e \in Entities, t \in Types :
          ~hasComponent(components, e, t) =>
            removeComponent(components, e, t) = components)
  /\ [](\A e \in Entities :
          ~HoldsAny(components, e) =>
            removeEntityComponents(components, e) = components)
  /\ [][ /\ (op'.name = "removeComponent" /\ ~op'.hit) =>
              /\ components' = components
              /\ entities' = entities
              /\ nextId' = nextId
         /\ (op'.name = "removeEntity" /\ ~op'.hit /\ op'.e \notin entities) =>
              /\ components' = components
              /\ entities' = entities
              /\ nextId' = nextId ]_vars

\* C12's case: removeComponent has just been called for a type that has no
\* sub-map, on an entity that holds a component of another type.
C12_Witness ==
  /\ op.name = "removeComponent"
  /\ ~op.hit
  /\ HoldsAny(components, op.e)
  /\ \E t \in Types : t \notin DOMAIN components

\* C13: in every reachable store, for every entity e, in the registry or not,
\* and every component c, after addComponent(e,c) getComponent(e,c.type) is c,
\* e has one entry under c.type, and the entries of the other entities under
\* c.type and all entries under the other types are as before; an
\* addComponent step is such an application and leaves the registry and the
\* id counter unchanged.
C13_AddComponent ==
  /\ [](\A e \in Entities, c \in Comps :
          LET after == addComponent(components, e, c)
              old == IF c.type \in DOMAIN components
                     THEN components[c.type]
                     ELSE << >>
          IN  /\ getComponent(after, e, c.type) = c
              /\ Len(SelectSeq(after[c.type], LAMBDA en : en.entity = e)) = 1
              /\ SelectSeq(after[c.type], LAMBDA en : en.entity # e)
                   = SelectSeq(old, LAMBDA en : en.entity # e)
              /\ DOMAIN after = DOMAIN components \cup {c.type}
              /\ \A t \in DOMAIN components \ {c.type} : after[t] = components[t])
  /\ [][ op'.name = "addComponent" =>
           /\ \E c \in Comps : components' = addComponent(components, op'.e, c)
           /\ entities' = entities
           /\ nextId' = nextId ]_vars

\* C13's case: addComponent has just replaced a component of an entity that
\* is not in the registry, while a registered entity holds components.
C13_Witness ==
  /\ op.name = "addComponent"
  /\ op.hit
  /\ op.e \notin entities
  /\ \E e2 \in entities : HoldsAny(components, e2)

\* The per-step or the startup sequence.
Chosen(sch, startup) == IF startup THEN sch.startupSystems ELSE sch.systems

\* list without its element at index k.
WithoutIndex(list, k) == SubSeq(list, 1, k - 1) \o SubSeq(list, k + 1, Len(list))

\* The removal half of C14: removeSystem(s, startup) takes the first
\* occurrence of s out of the chosen sequence, keeps the other systems in
\* their order, leaves the other sequence alone and changes nothing when s is
\* not in the chosen sequence.
RemovesFirstOccurrence(s, startup) ==
  LET old == Chosen(Sched, startup)
      new == IF startup THEN startupSystems' ELSE systems'
      at == {i \in 1 .. Len(old) : old[i] = s}
  IN  /\ IF at = {}
         THEN new = old
         ELSE new = WithoutIndex(old, CHOOSE k \in at : \A j \in at : k <= j)
      /\ IF startup THEN systems' = systems ELSE startupSystems' = startupSystems
      /\ running' = running
      /\ pending' = pending
      /\ invoked' = << >>

\* C14: removeSystem(s, startup) removes only the first occurrence of s from
\* the chosen sequence, keeps the order of the other systems, leaves the
\* other sequence unchanged and is a no-op when s is absent; a step() that
\* follows invokes exactly the remaining per-step systems, in order.
C14_RemoveSystem ==
  [][ /\ op'.name = "removeSystem" =>
           \E s \in Systems, startup \in BOOLEAN : RemovesFirstOccurrence(s, startup)
      /\ (op.name = "removeSystem" /\ op'.name = "step") =>
           invoked' = AsInvoked(systems, "step") ]_vars

\* What holds of removeSystem beside C14: the removal itself is as claimed,
\* and the step that follows invokes the remaining systems in order when
\* none of them takes itself out of the sequence during the step.
RemoveSystemThenPlainStep ==
  [][ /\ op'.name = "removeSystem" =>
           \E s \in Systems, startup \in BOOLEAN : RemovesFirstOccurrence(s, startup)
      /\ (op.name = "removeSystem" /\ op'.name = "step"
            /\ "r" \notin Range(systems)) =>
           invoked' = AsInvoked(systems, "step") ]_vars

\* C17: under any interleaving of run(), stop() and ticks of the host, at most
\* one loop callback is pending with the host at any time.
C17_OnePending == pending <= 1

\* How often a system occurs in a sequence of systems, or is invoked from
\* the per-step sequence in a sequence of invocations.
Occurrences(list, system) == Cardinality({i \in 1 .. Len(list) : list[i] = system})
Invocations(inv, system) ==
  Cardinality({i \in 1 .. Len(inv) : inv[i].sys = system /\ inv[i].phase = "step"})

\* C18: when a per-step system calls removeSystem during a step(), every
\* system still registered after the step is invoked in it once for each of
\* its registrations, and no system is invoked more often than it was
\* registered when the step began.
C18_RemovalDuringStep ==
  [][ (op'.name = "step" /\ systems' # systems) =>
        \A system \in Systems :
          /\ Invocations(invoked', system) >= Occurrences(systems', system)
          /\ Invocations(invoked', system) <= Occurrences(systems, system) ]_vars

\* C15: a lazy query yields at most as many tuples as there were holders of
\* the anchor type when its body began, also when the consumer adds
\* components of the anchor type to other entities between the advances.
C15_BoundedByStart ==
  iter.state \in {"yielded", "done"} => Len(out) <= started

\* C20: every tuple a lazy query yields holds in slot i a component of type
\* Ti, never the absent value, also when the consumer calls removeComponent,
\* removeEntity or clearEntities between the advances.
C20_SlotsPresent ==
  \A k \in 1 .. Len(out) :
    \A i \in 1 .. Len(iter.types) :
      /\ out[k].c[i] # Undefined
      /\ out[k].c[i].type = iter.types[i]

\* What holds of the yielded tuples beside C20: every slot holds a component
\* of its type as long as the consumer has not called clearEntities since
\* the generator's first advance.
SlotsPresentWithoutClear ==
  ~iter.detached =>
    \A k \in 1 .. Len(out) :
      \A i \in 1 .. Len(iter.types) :
        /\ out[k].c[i] # Undefined
        /\ out[k].c[i].type = iter.types[i]

\* C16: every tuple one lazy query has yielded is the one array of the
\* generator, which holds what the last advance stored in it, so a tuple
\* retained from an earlier advance shows the current entity and components;
\* the tuples of the eager query for the same types are one per matching
\* entity, each holding its own entity and that entity's components.
C16_OneBuffer ==
  /\ \A k \in 1 .. Len(refs) : refs[k] = iter.buf
  /\ Len(refs) = Len(out)
  /\ iter.state = "yielded" => iter.tuple = out[Len(out)]
  /\ iter.state # "none" =>
       LET q == query(components, iter.types)
       IN  \A i \in 1 .. Len(q) :
             /\ \A j \in 1 .. Len(q) : i # j => q[i].e # q[j].e
             /\ q[i] = storeQueryTuple(components, iter.types, q[i].e,
                                       NewTuple(iter.types))

\* C16's case: a lazy query has yielded twice; the array yielded first is
\* the generator's array and no longer holds what it held when it was
\* yielded, while the eager query has two tuples for the same store.
C16_Witness ==
  /\ iter.state = "yielded"
  /\ Len(refs) = 2
  /\ refs[1] = iter.buf
  /\ out[1].e # iter.tuple.e
  /\ out[1].c # iter.tuple.c
  /\ Len(query(components, iter.types)) = 2

\* C19: a get(app) returns the query result of the app passed to it: a get
\* with the second app that follows a get with the first app, with no
\* invalidate() in between, returns the second app's current query result.
C19_GetUsesApp ==
  [][ (op.name = "get" /\ op'.name = "getOther") =>
        cache'.v = query(other, cacheTypes) ]_vars

\* What holds of get beside C19: the first get since the wrapper's creation
\* or its last invalidate() returns the query result of the app passed to
\* it, and every later get returns that same value whatever app is passed.
GetIgnoresAppOnceCached ==
  [][ /\ op'.name = "get" =>
           cache'.v = IF fresh THEN query(components, cacheTypes) ELSE cache.v
      /\ op'.name = "getOther" =>
           cache'.v = IF fresh THEN query(other, cacheTypes) ELSE cache.v ]_vars

====
